---- MODULE Spec2Model ----
(***************************************************************************)
(* Raster change-detection and zonal-aggregation engine of AI-Geospatial:  *)
(* app/utils/raster_operations.py (RasterOperations) and the raster part   *)
(* of app/utils/spatial_engine.py (SpatialEngine).                          *)
(*                                                                         *)
(* Conventions of the model                                                *)
(*  - a numpy array is a non-empty sequence of non-empty rows of equal     *)
(*    length; Shape(a) = <<rows, columns>>;                                *)
(*  - band values are integers; an NDVI value computed by compute_ndvi is  *)
(*    a rational <<numerator, denominator>> with denominator > 0 (the      *)
(*    pair <<0, 0>> stands for NaN);                                       *)
(*  - pixels of NDVI rasters handed to the differencer, the classifiers    *)
(*    and the zonal aggregator are integers in tenths (3 is 0.3), the      *)
(*    sentinel -9999 is kept as it is.                                     *)
(***************************************************************************)
EXTENDS Integers, Sequences, FiniteSets, TLC

\* req, res: the request being served and its result (per caller in the
\* engine specification); files: the rasters the engine has written under its
\* data directory; pc: where each caller of the engine stands
VARIABLES req, res, files, pc

vars == <<req, res, files, pc>>

(***************************************************************************)
(* Bounds of the model.                                                    *)
(***************************************************************************)
\* an array of the model has at most MaxCells pixels
MaxCells == 2

(***************************************************************************)
(* numpy arrays                                                            *)
(***************************************************************************)
ArrayShapes == {s \in (1..MaxCells) \X (1..MaxCells) : s[1] * s[2] <= MaxCells}

ArraysOf(vals) == UNION {[1..s[1] -> [1..s[2] -> vals]] : s \in ArrayShapes}

Shape(a) == <<Len(a), Len(a[1])>>

Cells(a) == (1..Len(a)) \X (1..Len(a[1]))

\* numpy broadcasting of two 2-D shapes: each axis equal, or one of them 1
Broadcastable(s1, s2) ==
    \A i \in 1..2 : s1[i] = s2[i] \/ s1[i] = 1 \/ s2[i] = 1

Max2(x, y) == IF x >= y THEN x ELSE y

BroadcastShape(s1, s2) == <<Max2(s1[1], s2[1]), Max2(s1[2], s2[2])>>

\* the element of a that numpy pairs with cell <<r, c>> of the broadcast result
BElem(a, r, c) ==
    a[IF Len(a) = 1 THEN 1 ELSE r][IF Len(a[1]) = 1 THEN 1 ELSE c]

\* elementwise binary operation with broadcasting (shapes must be broadcastable)
Elementwise(F(_, _), a, b) ==
    LET s == BroadcastShape(Shape(a), Shape(b))
    IN  [r \in 1..s[1] |-> [c \in 1..s[2] |-> F(BElem(a, r, c), BElem(b, r, c))]]

(***************************************************************************)
(* Index algebra: RasterOperations.compute_ndvi                            *)
(***************************************************************************)
Rat(n, d) == IF d < 0 THEN <<-n, -d>> ELSE <<n, d>>

RatIsNaN(q) == q[2] = 0

RatLess(p, q) == p[1] * q[2] < q[1] * p[2]

\* np.clip(x, lo, hi); NaN passes through
NpClip(q, lo, hi) ==
    IF RatIsNaN(q) THEN q
    ELSE IF RatLess(q, Rat(lo, 1)) THEN Rat(lo, 1)
    ELSE IF RatLess(Rat(hi, 1), q) THEN Rat(hi, 1)
    ELSE q

Sign(n) == IF n > 0 THEN 1 ELSE IF n < 0 THEN -1 ELSE 0

\* (nir - red) / (nir + red) in floating point: x/0 is +inf (<<1, 0>>), -inf
\* (<<-1, 0>>) or NaN (<<0, 0>>), never an exception
NpDivide(n, d) == IF d = 0 THEN <<Sign(n), 0>> ELSE Rat(n, d)

NdviPixelNoZeroRule(red, nir) == NpDivide(nir - red, nir + red)

\* np.where((nir + red) == 0, 0, (nir - red) / (nir + red))
NdviPixel(red, nir) ==
    IF nir + red = 0 THEN Rat(0, 1) ELSE NpDivide(nir - red, nir + red)

NdviClippedNoClip(red, nir) == NdviPixel(red, nir)

\* ndvi = np.clip(np.where(...), -1, 1), one pixel
NdviClipped(red, nir) == NpClip(NdviPixel(red, nir), -1, 1)

\* RasterOperations.compute_ndvi on the loaded bands.  hasProfile: one of the
\* bands came from a file; outputPath: an output path was given.
compute_ndvi(red, nir, hasProfile, outputPath) ==
    IF ~Broadcastable(Shape(red), Shape(nir))
    THEN [raised |-> "ValueError", kind |-> "none", data |-> <<>>]
    ELSE [raised |-> "none",
          kind   |-> IF outputPath /\ hasProfile THEN "path" ELSE "array",
          data   |-> Elementwise(NdviClipped, red, nir)]

\* SentinelLoader.compute_ndvi: the same formula on two bands of one scene
\* (always of one shape), written to the output file without clipping
sentinel_compute_ndvi(red, nir) ==
    [raised |-> "none", kind |-> "path", data |-> Elementwise(NdviPixel, red, nir)]

\* the result slot before the operation has run
Pending == [raised |-> "none", kind |-> "pending", data |-> <<>>]

BandVals == {-1, 0, 1, 2}

BandArrays == ArraysOf(BandVals)

IndexRequests ==
    [op : {"compute_ndvi"}, red : BandArrays, nir : BandArrays,
     hasProfile : BOOLEAN, outputPath : BOOLEAN]
    \cup
    {r \in [op : {"sentinel_ndvi"}, red : BandArrays, nir : BandArrays,
            hasProfile : {TRUE}, outputPath : {TRUE}] :
        Shape(r.red) = Shape(r.nir)}

InitIndex == req \in IndexRequests /\ res = Pending /\ files = <<>> /\ pc = <<>>

ComputeNdvi ==
    /\ req.op = "compute_ndvi"
    /\ res.kind = "pending"
    /\ res' = compute_ndvi(req.red, req.nir, req.hasProfile, req.outputPath)
    /\ UNCHANGED <<req, files, pc>>

SentinelComputeNdvi ==
    /\ req.op = "sentinel_ndvi"
    /\ res.kind = "pending"
    /\ res' = sentinel_compute_ndvi(req.red, req.nir)
    /\ UNCHANGED <<req, files, pc>>

NextIndex == ComputeNdvi \/ SentinelComputeNdvi

SpecIndex == InitIndex /\ [][NextIndex]_vars

\* the operation of the request has returned (or raised)
Returned == res.kind # "pending"

\* C6: every pixel of the index returned by RasterOperations.compute_ndvi for two
\* bands of equal shape lies in the closed range [-1, 1], negative band
\* values and zero band sums included.
C6_Clamped ==
    (req.op = "compute_ndvi" /\ Returned /\ Shape(req.red) = Shape(req.nir)) =>
        /\ res.raised = "none"
        /\ \A rc \in Cells(res.data) :
             LET v == res.data[rc[1]][rc[2]]
             IN  /\ ~RatIsNaN(v)
                 /\ ~RatLess(v, Rat(-1, 1))
                 /\ ~RatLess(Rat(1, 1), v)

\* a returned index with a pixel whose raw ratio is outside [-1, 1] (a negative
\* band value) and a pixel whose band sum is zero
C6_Witness ==
    /\ req.op = "compute_ndvi" /\ Returned /\ Shape(req.red) = Shape(req.nir)
    /\ \E rc \in Cells(req.red) :
         LET n == req.nir[rc[1]][rc[2]]  r == req.red[rc[1]][rc[2]]
         IN  n + r > 0 /\ n - r > n + r
    /\ \E rc \in Cells(req.red) :
         req.nir[rc[1]][rc[2]] + req.red[rc[1]][rc[2]] = 0

\* C7: compute_ndvi returns a grid of the shape of its inputs; a pixel is 0 when
\* nir + red = 0, is (nir - red) / (nir + red) when that ratio is within [-1, 1],
\* and is the nearer of -1 and 1 otherwise.  The zero rule also holds for the
\* index written by SentinelLoader.compute_ndvi.
C7_NdviValue ==
    (Returned /\ Shape(req.red) = Shape(req.nir)) =>
        /\ res.raised = "none"
        /\ Shape(res.data) = Shape(req.red)
        /\ \A rc \in Cells(req.red) :
             LET n == req.nir[rc[1]][rc[2]]
                 r == req.red[rc[1]][rc[2]]
                 v == res.data[rc[1]][rc[2]]
                 inRange == (n - r) * (n - r) <= (n + r) * (n + r)
             IN  /\ ~RatIsNaN(v) /\ v[2] > 0
                 /\ (n + r = 0) => v[1] = 0
                 /\ (req.op = "compute_ndvi" /\ n + r # 0 /\ inRange) =>
                        v[1] * (n + r) = (n - r) * v[2]
                 /\ (req.op = "compute_ndvi" /\ n + r # 0 /\ ~inRange) =>
                        /\ v[1] * v[1] = v[2] * v[2]
                        /\ Sign(v[1]) = Sign(n - r) * Sign(n + r)

\* a returned index holding a zero-sum pixel with non-zero bands, and a pixel
\* with an unclamped ratio different from 0
C7_Witness ==
    /\ req.op = "compute_ndvi" /\ Returned /\ Shape(req.red) = Shape(req.nir)
    /\ \E rc \in Cells(req.red) :
         /\ req.nir[rc[1]][rc[2]] + req.red[rc[1]][rc[2]] = 0
         /\ req.nir[rc[1]][rc[2]] # 0
         /\ res.data[rc[1]][rc[2]][1] = 0
    /\ \E rc \in Cells(req.red) :
         /\ req.nir[rc[1]][rc[2]] = 2 /\ req.red[rc[1]][rc[2]] = 1
         /\ res.data[rc[1]][rc[2]] = <<1, 3>>

(***************************************************************************)
(* Differencer: RasterOperations.ndvi_difference                           *)
(***************************************************************************)
\* the nodata sentinel the module writes and filters
NoData == -9999

\* NDVI pixels in tenths: nodata, 0.2 and 0.5
PixVals == {NoData, 2, 5}

PixArrays == ArraysOf(PixVals)

\* an affine transform of unit pixels: the geographic origin <<x, y>> of cell <<1, 1>>
Transforms == {<<0, 0>>, <<1, 0>>}

CRSs == {"EPSG:4326", "EPSG:25833"}

\* GridSource = FileRef | InMemory: an in-memory array carries no transform or CRS
MemGrids == [kind : {"mem"}, samples : PixArrays, transform : {<<0, 0>>}, crs : {"none"}]

FileGrids == [kind : {"file"}, samples : PixArrays, transform : Transforms, crs : CRSs]

\* the coordinates of a place in a CRS are its EPSG:4326 coordinates moved by
\* the origin of that CRS
CrsOrigin(crs) == IF crs = "EPSG:25833" THEN <<10, 0>> ELSE <<0, 0>>

\* rasterio.warp.reproject of src (transform srcT, CRS srcCrs) onto a grid of
\* shape dstShape, transform dstT and CRS dstCrs: with unit pixels a
\* destination cell takes the source sample of the same place, and 0 where
\* the source has none
Reproject(src, srcT, srcCrs, dstShape, dstT, dstCrs) ==
    [r \in 1..dstShape[1] |->
        [c \in 1..dstShape[2] |->
            LET sr == r + dstT[2] - CrsOrigin(dstCrs)[2] - srcT[2] + CrsOrigin(srcCrs)[2]
                sc == c + dstT[1] - CrsOrigin(dstCrs)[1] - srcT[1] + CrsOrigin(srcCrs)[1]
            IN  IF sr \in 1..Len(src) /\ sc \in 1..Len(src[1])
                THEN src[sr][sc] ELSE 0]]

DiffPixelAbs(v1, v2) == IF v2 - v1 < 0 THEN v1 - v2 ELSE v2 - v1

\* ndvi_diff = ndvi2 - ndvi1, one pixel
DiffPixel(v1, v2) == v2 - v1

\* "Check if rasters need resampling": only for two file-backed grids, and only
\* shape and transform are compared
NeedsResampling(t1, t2) ==
    /\ t1.kind = "file" /\ t2.kind = "file"
    /\ (Shape(t1.samples) # Shape(t2.samples) \/ t1.transform # t2.transform)

DiffFailed(err) ==
    [raised |-> err, kind |-> "none", data |-> <<>>,
     transform |-> <<0, 0>>, crs |-> "none", resampled |-> FALSE]

ndvi_difference(t1, t2, outputPath) ==
    LET ndvi1 == t1.samples
        ndvi2 == IF NeedsResampling(t1, t2)
                 THEN Reproject(t2.samples, t2.transform, t2.crs,
                                Shape(ndvi1), t1.transform, t1.crs)
                 ELSE t2.samples
        hasProfile == t1.kind = "file" \/ t2.kind = "file"
        profile == IF t1.kind = "file" THEN t1 ELSE t2
    IN  IF ~Broadcastable(Shape(ndvi1), Shape(ndvi2))
        THEN DiffFailed("ValueError")
        ELSE LET ndvi_diff == Elementwise(DiffPixel, ndvi1, ndvi2)
             IN  IF outputPath /\ hasProfile
                 THEN IF Shape(ndvi_diff) # Shape(profile.samples)
                      THEN DiffFailed("ValueError")
                      ELSE [raised |-> "none", kind |-> "path", data |-> ndvi_diff,
                            transform |-> profile.transform, crs |-> profile.crs,
                            resampled |-> NeedsResampling(t1, t2)]
                 ELSE [raised |-> "none", kind |-> "array", data |-> ndvi_diff,
                       transform |-> <<0, 0>>, crs |-> "none",
                       resampled |-> NeedsResampling(t1, t2)]

\* the first grid of a request is the reference: its origin is <<0, 0>>
DiffRequests ==
    {r \in [op : {"ndvi_difference"}, t1 : MemGrids \cup FileGrids,
            t2 : MemGrids \cup FileGrids, outputPath : BOOLEAN] :
        r.t1.transform = <<0, 0>> /\ r.t1.crs \in {"none", "EPSG:4326"}}

InitDiff == req \in DiffRequests /\ res = Pending /\ files = <<>> /\ pc = <<>>

NdviDifference ==
    /\ req.op = "ndvi_difference"
    /\ res.kind = "pending"
    /\ res' = ndvi_difference(req.t1, req.t2, req.outputPath)
    /\ UNCHANGED <<req, files, pc>>

NextDiff == NdviDifference

SpecDiff == InitDiff /\ [][NextDiff]_vars

\* the two grids of the request differ in shape or (where both carry one) transform
Misaligned(t1, t2) ==
    \/ Shape(t1.samples) # Shape(t2.samples)
    \/ (t1.kind = "file" /\ t2.kind = "file" /\ t1.transform # t2.transform)

\* same shape, transform and CRS
Aligned(t1, t2) ==
    /\ Shape(t1.samples) = Shape(t2.samples)
    /\ t1.transform = t2.transform
    /\ t1.crs = t2.crs

\* C2: ndvi_difference applied to two grids whose shape or transform differ raises
\* an error and yields no ChangeResult, whatever the kinds of the two inputs.
C2_MisalignedRaises ==
    (req.op = "ndvi_difference" /\ Returned /\ Misaligned(req.t1, req.t2)) =>
        res.raised # "none"

\* the place (in EPSG:4326 coordinates) of pixel rc of grid g
PlaceOf(rc, g) ==
    <<rc[2] + g.transform[1] - CrsOrigin(g.crs)[1],
      rc[1] + g.transform[2] - CrsOrigin(g.crs)[2]>>

\* C22: for two raster files, the second grid is used unchanged exactly when
\* its transform, CRS and shape are those of the first; otherwise it is
\* resampled onto the first grid, so the difference has the first grid's shape
\* and each of its pixels subtracts the two samples of one place.
C22_AlignedOnlyWhenIdentical ==
    (req.op = "ndvi_difference" /\ Returned
        /\ req.t1.kind = "file" /\ req.t2.kind = "file") =>
        /\ res.raised = "none"
        /\ res.resampled <=> ~Aligned(req.t1, req.t2)
        /\ Shape(res.data) = Shape(req.t1.samples)
        /\ \A rc \in Cells(req.t1.samples) : \A rc2 \in Cells(req.t2.samples) :
             PlaceOf(rc, req.t1) = PlaceOf(rc2, req.t2) =>
                res.data[rc[1]][rc[2]] =
                    req.t2.samples[rc2[1]][rc2[2]] - req.t1.samples[rc[1]][rc[2]]

\* C3: in the ChangeResult of difference(t1, t2) on aligned grids a pixel that is
\* nodata in t1 or in t2 is nodata, and every other pixel holds t2 minus t1.
C3_NodataPropagates ==
    (req.op = "ndvi_difference" /\ Returned /\ Aligned(req.t1, req.t2)
        /\ res.raised = "none") =>
        \A rc \in Cells(res.data) :
            LET v1 == req.t1.samples[rc[1]][rc[2]]
                v2 == req.t2.samples[rc[1]][rc[2]]
                d  == res.data[rc[1]][rc[2]]
            IN  IF v1 = NoData \/ v2 = NoData THEN d = NoData ELSE d = v2 - v1

\* C5: for aligned grids A and B, difference(B, A) is the pixelwise negation of
\* difference(A, B) on every pixel that is nodata in neither grid.
C5_AntiSymmetry ==
    (req.op = "ndvi_difference" /\ Returned /\ Aligned(req.t1, req.t2)) =>
        LET back == ndvi_difference(req.t2, req.t1, req.outputPath)
        IN  /\ res.raised = "none" /\ back.raised = "none"
            /\ Shape(back.data) = Shape(res.data)
            /\ \A rc \in Cells(res.data) :
                 (req.t1.samples[rc[1]][rc[2]] # NoData
                     /\ req.t2.samples[rc[1]][rc[2]] # NoData) =>
                    back.data[rc[1]][rc[2]] = 0 - res.data[rc[1]][rc[2]]

\* two aligned file-backed grids with a pixel that changed between them
C5_Witness ==
    /\ req.op = "ndvi_difference" /\ Returned /\ Aligned(req.t1, req.t2)
    /\ req.t1.kind = "file" /\ req.t2.kind = "file"
    /\ \E rc \in Cells(res.data) : res.data[rc[1]][rc[2]] = -3

(***************************************************************************)
(* Classifier and vectorizer: RasterOperations.vectorize_raster,           *)
(* detect_vegetation_loss, detect_vegetation_gain                          *)
(***************************************************************************)
\* pixels of a difference raster in tenths: nodata, -0.3, 0 and 0.3
VecVals == {NoData, -3, 0, 3}

VecArrays == ArraysOf(VecVals)

VecGrids ==
    [kind : {"mem"}, samples : VecArrays, transform : {<<0, 0>>}, crs : {"none"}]
    \cup
    [kind : {"file"}, samples : VecArrays, transform : Transforms, crs : CRSs]

\* a threshold argument: absent (None) or a number in tenths
NoThreshold == [given |-> FALSE, value |-> 0]

Thresholds == {NoThreshold} \cup [given : {TRUE}, value : {-3, -2, 3}]

Operators == {"greater", "less", "equal", "between"}

Bit(b) == IF b THEN 1 ELSE 0

\* (ndvi_array < threshold).astype(np.uint8), one pixel
LossMaskPixel(v, threshold) == Bit(v < threshold)

\* (ndvi_array > threshold).astype(np.uint8), one pixel
GainMaskPixel(v, threshold) == Bit(v > threshold)

\* the thresholding of vectorize_raster, one pixel (operator is one of the three)
ThresholdMaskPixel(v, threshold, operator) ==
    IF ~threshold.given THEN Bit(v > 0)
    ELSE IF operator = "greater" THEN Bit(v > threshold.value)
    ELSE IF operator = "less" THEN Bit(v < threshold.value)
    ELSE Bit(v = threshold.value)

\* vectorize_raster raises ValueError("Unknown operator") only inside the
\* thresholding branch
UnknownOperatorRaised(threshold, operator) ==
    threshold.given /\ operator \notin {"greater", "less", "equal"}

Adjacent4(p, q) ==
    \/ (p[1] = q[1] /\ (p[2] = q[2] + 1 \/ q[2] = p[2] + 1))
    \/ (p[2] = q[2] /\ (p[1] = q[1] + 1 \/ q[1] = p[1] + 1))

RECURSIVE Grow(_, _)
\* the 4-connected region of the cell set S within the cells `same`
Grow(S, same) ==
    LET N == {q \in same \ S : \E p \in S : Adjacent4(p, q)}
    IN  IF N = {} THEN S ELSE Grow(S \cup N, same)

RowMajorCell(a, k) == <<((k - 1) \div Len(a[1])) + 1, ((k - 1) % Len(a[1])) + 1>>

\* the geographic cell of pixel <<r, c>>; transform=None is the identity
GeoCell(rc, transform) == <<rc[2] + transform[1], rc[1] + transform[2]>>

RECURSIVE ShapesFrom(_, _, _, _)
ShapesFrom(mask, transform, k, done) ==
    IF k > Len(mask) * Len(mask[1]) THEN <<>>
    ELSE LET cell == RowMajorCell(mask, k)
         IN  IF cell \in done THEN ShapesFrom(mask, transform, k + 1, done)
             ELSE LET same == {q \in Cells(mask) : mask[q[1]][q[2]] = mask[cell[1]][cell[2]]}
                      region == Grow({cell}, same)
                  IN  <<[geometry |-> {GeoCell(q, transform) : q \in region},
                         value |-> mask[cell[1]][cell[2]]]>>
                      \o ShapesFrom(mask, transform, k + 1, done \cup region)

\* rasterio.features.shapes(mask, transform): one (geometry, value) per maximal
\* 4-connected region of equal value, in the order of each region's first pixel
shapes(mask, transform) == ShapesFrom(mask, transform, 1, {})

\* "if value == 1": the features kept by the three vectorizing functions
KeepOnes(fs) == SelectSeq(fs, LAMBDA f : f.value = 1)

VecFailed(err) ==
    [raised |-> err, kind |-> "none", mask |-> <<>>, features |-> <<>>,
     crs |-> "none", column |-> "none"]

\* the GeoDataFrame built from the kept polygons; column: the value column
VecResult(g, mask, column) ==
    LET polygons == KeepOnes(shapes(mask, g.transform))
    IN  [raised |-> "none", kind |-> "gdf", mask |-> mask, features |-> polygons,
         crs |-> IF g.kind = "file" THEN g.crs ELSE "EPSG:4326",
         column |-> IF polygons = <<>> THEN "none" ELSE column]

vectorize_raster(g, threshold, operator) ==
    IF UnknownOperatorRaised(threshold, operator)
    THEN VecFailed("ValueError")
    ELSE VecResult(g,
            [r \in 1..Len(g.samples) |-> [c \in 1..Len(g.samples[1]) |->
                ThresholdMaskPixel(g.samples[r][c], threshold, operator)]],
            "value")

detect_vegetation_loss(g, threshold) ==
    VecResult(g,
        [r \in 1..Len(g.samples) |-> [c \in 1..Len(g.samples[1]) |->
            LossMaskPixel(g.samples[r][c], threshold)]],
        "loss_detected")

detect_vegetation_gain(g, threshold) ==
    VecResult(g,
        [r \in 1..Len(g.samples) |-> [c \in 1..Len(g.samples[1]) |->
            GainMaskPixel(g.samples[r][c], threshold)]],
        "gain_detected")

\* class codes 0 (background), 1, 2 and 3 of a categorical mask, in tenths
ClassCodes == {0, 10, 20, 30}

\* categorical masks handed to vectorize_raster as arrays
ClassGrids ==
    [kind : {"mem"}, samples : ArraysOf(ClassCodes), transform : {<<0, 0>>}, crs : {"none"}]

\* the min_area_pixels argument of the two detectors: 10 by default; the
\* argument is accepted and no statement of the detectors reads it
MinAreaPixelsDefault == 10

MinAreas == {2, MinAreaPixelsDefault}

VecRequests ==
    [op : {"vectorize_raster"}, raster : VecGrids, threshold : Thresholds,
     operator : Operators]
    \cup
    [op : {"vectorize_raster"}, raster : ClassGrids, threshold : {NoThreshold},
     operator : {"greater"}]
    \cup
    [op : {"detect_vegetation_loss", "detect_vegetation_gain"}, raster : VecGrids,
     threshold : Thresholds \ {NoThreshold}, operator : {"none"},
     min_area_pixels : MinAreas]

InitVec == req \in VecRequests /\ res = Pending /\ files = <<>> /\ pc = <<>>

VectorizeRaster ==
    /\ req.op = "vectorize_raster"
    /\ res.kind = "pending"
    /\ res' = vectorize_raster(req.raster, req.threshold, req.operator)
    /\ UNCHANGED <<req, files, pc>>

DetectVegetationLoss ==
    /\ req.op = "detect_vegetation_loss"
    /\ res.kind = "pending"
    /\ res' = detect_vegetation_loss(req.raster, req.threshold.value)
    /\ UNCHANGED <<req, files, pc>>

DetectVegetationGain ==
    /\ req.op = "detect_vegetation_gain"
    /\ res.kind = "pending"
    /\ res' = detect_vegetation_gain(req.raster, req.threshold.value)
    /\ UNCHANGED <<req, files, pc>>

NextVec == VectorizeRaster \/ DetectVegetationLoss \/ DetectVegetationGain

SpecVec == InitVec /\ [][NextVec]_vars

\* operator(pixel, threshold) for the three comparison operators
OperatorHolds(operator, v, t) ==
    \/ (operator = "greater" /\ v > t)
    \/ (operator = "less" /\ v < t)
    \/ (operator = "equal" /\ v = t)

\* the comparison a request classifies with
ClassifyOperator ==
    IF req.op = "detect_vegetation_loss" THEN "less"
    ELSE IF req.op = "detect_vegetation_gain" THEN "greater"
    ELSE req.operator

\* pixel rc of the request's raster lies in a returned polygon
Covered(rc) ==
    \E i \in 1..Len(res.features) :
        GeoCell(rc, req.raster.transform) \in res.features[i].geometry

\* C4: classify(grid, threshold, operator) marks a pixel 1 exactly when it is not
\* nodata and operator(pixel, threshold) holds, in vectorize_raster's
\* thresholding and in the loss and gain detectors; a nodata pixel is never 1
\* and never inside a returned polygon.
C4_ClassifyExcludesNodata ==
    (req.op \in {"vectorize_raster", "detect_vegetation_loss", "detect_vegetation_gain"}
        /\ Returned /\ req.threshold.given
        /\ ClassifyOperator \in {"greater", "less", "equal"}) =>
        /\ res.raised = "none"
        /\ \A rc \in Cells(req.raster.samples) :
             LET v == req.raster.samples[rc[1]][rc[2]]
                 one == v # NoData /\ OperatorHolds(ClassifyOperator, v, req.threshold.value)
             IN  /\ res.mask[rc[1]][rc[2]] = Bit(one)
                 /\ Covered(rc) <=> one

\* C8: vectorize_raster called with an operator outside {greater, less, equal}
\* fails with an error and produces no mask and no polygons, whether the
\* threshold is a number or absent.
C8_UnknownOperatorRejected ==
    (req.op = "vectorize_raster" /\ Returned
        /\ req.operator \notin {"greater", "less", "equal"}) =>
        /\ res.raised # "none"
        /\ res.features = <<>>

\* C26: every polygon returned by detect_vegetation_loss or
\* detect_vegetation_gain covers at least min_area_pixels pixels (10 by
\* default); smaller regions are dropped.
C26_MinAreaFilter ==
    (req.op \in {"detect_vegetation_loss", "detect_vegetation_gain"} /\ Returned) =>
        \A i \in 1..Len(res.features) :
            Cardinality(res.features[i].geometry) >= req.min_area_pixels

\* every pixel of the request's raster is nodata
AllNodata ==
    \A rc \in Cells(req.raster.samples) : req.raster.samples[rc[1]][rc[2]] = NoData

\* C16: vectorizing a raster that is entirely nodata (vectorize_raster with a
\* threshold and one of the three operators, or the loss and gain detectors)
\* returns no polygon and no error, with the CRS of the source.
C16_AllNodataIsEmpty ==
    (req.op \in {"vectorize_raster", "detect_vegetation_loss", "detect_vegetation_gain"}
        /\ Returned /\ AllNodata
        /\ (req.threshold.given => ClassifyOperator \in {"greater", "less", "equal"})) =>
        /\ res.raised = "none"
        /\ res.features = <<>>
        /\ req.raster.kind = "file" => res.crs = req.raster.crs

\* the request vectorizes a categorical mask as it is (no threshold)
CategoricalRequest ==
    /\ req.op = "vectorize_raster" /\ ~req.threshold.given
    /\ \A rc \in Cells(req.raster.samples) : req.raster.samples[rc[1]][rc[2]] \in ClassCodes

\* C17: vectorizing a categorical mask gives polygons whose value attribute is
\* the class code of every pixel they cover (so pixels of different codes never
\* share a polygon), covering every non-background pixel and no background one.
C17_PolygonPerValue ==
    (CategoricalRequest /\ Returned) =>
        /\ res.raised = "none"
        /\ \A rc \in Cells(req.raster.samples) :
             LET v == req.raster.samples[rc[1]][rc[2]]
             IN  /\ Covered(rc) <=> v # 0
                 /\ \A i \in 1..Len(res.features) :
                      GeoCell(rc, req.raster.transform) \in res.features[i].geometry
                          => 10 * res.features[i].value = v

\* C18: the polygons of detect_vegetation_loss(d, th) cover exactly the valid
\* pixels of d below th (classify with "less", then vectorize); when every
\* pixel is below th the output is one polygon covering the full extent.
C18_LossIsClassifyThenVectorize ==
    (req.op = "detect_vegetation_loss" /\ Returned) =>
        /\ res.raised = "none"
        /\ \A rc \in Cells(req.raster.samples) :
             LET v == req.raster.samples[rc[1]][rc[2]]
             IN  Covered(rc) <=> (v # NoData /\ v < req.threshold.value)
        /\ (\A rc \in Cells(req.raster.samples) :
                req.raster.samples[rc[1]][rc[2]] < req.threshold.value) =>
              /\ Len(res.features) = 1
              /\ res.features[1].geometry =
                    {GeoCell(rc, req.raster.transform) : rc \in Cells(req.raster.samples)}

(***************************************************************************)
(* Zonal aggregator: RasterOperations.zonal_stats                          *)
(***************************************************************************)
\* a zone collection holds at most MaxZones zones
MaxZones == 2

\* the code of a NaN pixel (np.nan) among the integer pixels
NaNPix == 99999

\* pixels of a raster handed to zonal_stats: -9999, NaN, 0.2 and 0.5
ZonVals == {NoData, NaNPix, 2, 5}

\* the nodata value a raster file declares (src.nodata): -9999 or 0.2
FileNodata == {NoData, 2}

\* an array has neither transform, CRS nor declared nodata
ZoneRasters ==
    [kind : {"mem"}, samples : ArraysOf(ZonVals), transform : {<<0, 0>>}, crs : {"none"}]
    \cup
    [kind : {"file"}, samples : ArraysOf(ZonVals), transform : {<<0, 0>>},
     crs : {"EPSG:4326"}, nodata : FileNodata]

\* GeoDataFrame.to_crs on one geometry (a set of unit cells): a new geometry
to_crs(geometry, from, to) ==
    {<<p[1] - CrsOrigin(from)[1] + CrsOrigin(to)[1],
       p[2] - CrsOrigin(from)[2] + CrsOrigin(to)[2]>> : p \in geometry}

\* zone geometries in EPSG:4326: the first pixel, every possible pixel, and a
\* place far from every raster
BaseGeometries ==
    {{<<1, 1>>}, (1..MaxCells) \X (1..MaxCells), {<<9, 9>>}}

\* a zone: hasGeometry = FALSE is a row whose geometry is None
ZonesOf(crs) ==
    [hasGeometry : {TRUE}, geometry : {to_crs(g, "EPSG:4326", crs) : g \in BaseGeometries}]
    \cup {[hasGeometry |-> FALSE, geometry |-> {}]}

ZoneCollections ==
    UNION {[crs : {c}, rows : UNION {[1..n -> ZonesOf(c)] : n \in 0..MaxZones}] : c \in CRSs}

KnownStats == {"mean", "min", "max", "std", "sum", "count"}

\* requested statistic lists: every known name, a repeated name, an unknown name
StatLists ==
    {<<"mean", "min", "max", "std", "sum", "count">>, <<"count", "count">>,
     <<"mean", "median">>}

\* a statistic value: a rational n/d ("num"), the square root of one ("sqrt"),
\* or np.nan ("nan")
NaNStat == [k |-> "nan", n |-> 0, d |-> 1]

Num(n, d) == [k |-> "num", n |-> n, d |-> d]

RECURSIVE SeqSum(_)
SeqSum(q) == IF q = <<>> THEN 0 ELSE Head(q) + SeqSum(Tail(q))

SeqSet(q) == {q[i] : i \in 1..Len(q)}

SetMin(S) == CHOOSE x \in S : \A y \in S : x <= y

SetMax(S) == CHOOSE x \in S : \A y \in S : y <= x

\* np.mean, np.min, np.max, np.std, np.sum and len of a non-empty value array
StatValue(name, values) ==
    LET n == Len(values)
        sum == SeqSum(values)
        squares == SeqSum([i \in 1..n |-> values[i] * values[i]])
    IN  IF name = "mean" THEN Num(sum, n)
        ELSE IF name = "min" THEN Num(SetMin(SeqSet(values)), 1)
        ELSE IF name = "max" THEN Num(SetMax(SeqSet(values)), 1)
        ELSE IF name = "std" THEN [k |-> "sqrt", n |-> n * squares - sum * sum, d |-> n * n]
        ELSE IF name = "sum" THEN Num(sum, 1)
        ELSE Num(n, 1)

\* rasterio.mask.mask(src, [geom], crop=True, nodata=-9999)[0][0], row-major:
\* the window is the raster cut to the bounding box of the geometry; a pixel
\* outside the geometry becomes -9999; no overlap raises ValueError
MaskCrop(raster, geometry) ==
    LET xs == {p[1] : p \in geometry}
        ys == {p[2] : p \in geometry}
        inBox(rc) == LET g == GeoCell(rc, raster.transform)
                     IN  /\ SetMin(xs) <= g[1] /\ g[1] <= SetMax(xs)
                         /\ SetMin(ys) <= g[2] /\ g[2] <= SetMax(ys)
        a == raster.samples
        all == [k \in 1..(Len(a) * Len(a[1])) |-> RowMajorCell(a, k)]
        window == SelectSeq(all, inBox)
    IN  IF window = <<>>
        THEN [raised |-> "ValueError", values |-> <<>>]
        ELSE [raised |-> "none",
              values |-> [i \in 1..Len(window) |->
                  IF GeoCell(window[i], raster.transform) \in geometry
                  THEN a[window[i][1]][window[i][2]] ELSE NoData]]

\* the whole array, row-major: "values = raster_array" for an in-memory raster
Flatten(a) == [k \in 1..(Len(a) * Len(a[1])) |-> a[RowMajorCell(a, k)[1]][RowMajorCell(a, k)[2]]]

\* values[values != -9999] then values[~np.isnan(values)]
RemoveNodata(values) == SelectSeq(values, LAMBDA v : v # NoData /\ v # NaNPix)

\* .astype(int) of a value in tenths: truncation toward zero
TruncInt(v) == IF v >= 0 THEN v \div 10 ELSE 0 - ((0 - v) \div 10)

\* dict(zip(unique.astype(int), counts.astype(int))): unique is ascending, a
\* later pair replaces an earlier pair of the same key
CategoryDict(values) ==
    LET unique == SeqSet(values)
        count(u) == Cardinality({i \in 1..Len(values) : values[i] = u})
    IN  [key \in {TruncInt(u) : u \in unique} |->
            count(SetMax({u \in unique : TruncInt(u) = key}))]

Occurrences(stats, name) == Cardinality({i \in 1..Len(stats) : stats[i] = name})

\* "for stat in stats: results[stat].append(np.nan)", as the entries added per key
NaNRowZero(stats) ==
    [name \in SeqSet(stats) |-> [i \in 1..Occurrences(stats, name) |-> Num(0, 1)]]

NaNRow(stats) ==
    [name \in SeqSet(stats) |-> [i \in 1..Occurrences(stats, name) |-> NaNStat]]

\* one iteration of "for idx, row in polygons.iterrows()": what it appends to
\* the result lists (appended, hist), how it ended (outcome) and the values
\* it aggregated
ZoneRow(raster, zone, stats, categorical) ==
    LET failed == [outcome |-> "failed", appended |-> NaNRow(stats), hist |-> <<>>,
                   values |-> <<>>]
    IN  IF ~zone.hasGeometry THEN failed
        ELSE LET masked == IF raster.kind = "file"
                           THEN MaskCrop(raster, zone.geometry)
                           ELSE [raised |-> "none", values |-> Flatten(raster.samples)]
                 values == RemoveNodata(masked.values)
             IN  IF masked.raised # "none" THEN failed
                 ELSE IF Len(values) = 0
                 THEN [outcome |-> "empty", appended |-> NaNRow(stats), hist |-> <<>>,
                       values |-> values]
                 ELSE [outcome |-> "computed", values |-> values,
                       appended |-> [name \in SeqSet(stats) |->
                           IF name \in KnownStats THEN <<StatValue(name, values)>> ELSE <<>>],
                       hist |-> IF categorical THEN <<CategoryDict(values)>> ELSE <<>>]

RECURSIVE Concat(_)
\* the concatenation of a sequence of sequences
Concat(qs) == IF qs = <<>> THEN <<>> ELSE Head(qs) \o Concat(Tail(qs))

zonal_stats_uncaught(raster, polygons, stats, categorical) ==
    LET zones == [i \in 1..Len(polygons.rows) |->
                    IF raster.kind = "file" /\ polygons.crs # raster.crs
                    THEN [polygons.rows[i] EXCEPT
                            !.geometry = to_crs(@, polygons.crs, raster.crs)]
                    ELSE polygons.rows[i]]
        rows == [i \in 1..Len(zones) |-> ZoneRow(raster, zones[i], stats, categorical)]
    IN  IF \E i \in 1..Len(rows) : rows[i].outcome = "failed"
        THEN [raised |-> "ValueError", kind |-> "none", results |-> <<>>,
              categories |-> <<>>, rows |-> <<>>]
        ELSE [raised |-> "none", kind |-> "dict",
              results |-> [name \in SeqSet(stats) |->
                              Concat([i \in 1..Len(rows) |-> rows[i].appended[name]])],
              categories |-> Concat([i \in 1..Len(rows) |-> rows[i].hist]),
              rows |-> rows]

\* RasterOperations.zonal_stats: results maps each requested name to its array,
\* categories is results['categories'] (empty when not categorical); rows
\* records what each iteration of the loop appended
zonal_stats(raster, polygons, stats, categorical) ==
    LET zones == [i \in 1..Len(polygons.rows) |->
                    IF raster.kind = "file" /\ polygons.crs # raster.crs
                    THEN [polygons.rows[i] EXCEPT
                            !.geometry = to_crs(@, polygons.crs, raster.crs)]
                    ELSE polygons.rows[i]]
        rows == [i \in 1..Len(zones) |-> ZoneRow(raster, zones[i], stats, categorical)]
    IN  [raised |-> "none", kind |-> "dict",
         results |-> [name \in SeqSet(stats) |->
                         Concat([i \in 1..Len(rows) |-> rows[i].appended[name]])],
         categories |-> Concat([i \in 1..Len(rows) |-> rows[i].hist]),
         rows |-> rows]

ZonalRequests ==
    [op : {"zonal_stats"}, raster : ZoneRasters, polygons : ZoneCollections,
     stats : StatLists, categorical : BOOLEAN]

InitZonal == req \in ZonalRequests /\ res = Pending /\ files = <<>> /\ pc = <<>>

ZonalStats ==
    /\ req.op = "zonal_stats"
    /\ res.kind = "pending"
    /\ res' = zonal_stats(req.raster, req.polygons, req.stats, req.categorical)
    /\ UNCHANGED <<req, files, pc>>

NextZonal == ZonalStats

SpecZonal == InitZonal /\ [][NextZonal]_vars

\* the geometry of zone i of the request in the CRS of the raster
ZoneGeometry(i) ==
    IF req.raster.kind = "file"
    THEN to_crs(req.polygons.rows[i].geometry, req.polygons.crs, req.raster.crs)
    ELSE req.polygons.rows[i].geometry

\* the pixels zonal_stats aggregates for zone i: those inside the zone for a
\* file-backed raster, the whole array for an in-memory one
ZonePixels(i) ==
    IF req.raster.kind = "file"
    THEN {rc \in Cells(req.raster.samples) :
            GeoCell(rc, req.raster.transform) \in ZoneGeometry(i)}
    ELSE Cells(req.raster.samples)

\* zone i has a geometry and none of its pixels is valid: it lies off the
\* raster, or every pixel it covers is nodata
ZeroValidPixels(i) ==
    /\ req.polygons.rows[i].hasGeometry
    /\ \A rc \in ZonePixels(i) : req.raster.samples[rc[1]][rc[2]] \in {NoData, NaNPix}

\* the requested names are distinct statistic names
PlainStats == /\ \A name \in SeqSet(req.stats) : name \in KnownStats
              /\ Cardinality(SeqSet(req.stats)) = Len(req.stats)

\* iteration i reported a missing value for every requested statistic
MissingRow(i) ==
    \A name \in SeqSet(req.stats) :
        /\ res.rows[i].appended[name] # <<>>
        /\ \A e \in 1..Len(res.rows[i].appended[name]) :
              res.rows[i].appended[name][e] = NaNStat

RemoveAt(q, k) == [i \in 1..(Len(q) - 1) |-> IF i < k THEN q[i] ELSE q[i + 1]]

\* zone k fails: its geometry is missing, or lies outside the raster's bounds
FailingZone(k) ==
    \/ ~req.polygons.rows[k].hasGeometry
    \/ (req.raster.kind = "file" /\ ZonePixels(k) = {})

C11_OneEntryPerZone ==
    (req.op = "zonal_stats" /\ Returned) =>
        /\ res.raised = "none"
        /\ \A name \in SeqSet(req.stats) :
             /\ Len(res.results[name]) = Len(req.polygons.rows)
             /\ \A i \in 1..Len(req.polygons.rows) :
                  res.rows[i].appended[name] = <<res.results[name][i]>>

\* the pixels of the raster that lie inside the geometry of zone i
InsidePixels(i) ==
    {rc \in Cells(req.raster.samples) :
        GeoCell(rc, req.raster.transform) \in ZoneGeometry(i)}

\* no pixel of the request's raster is -9999, NaN or the declared nodata
RasterWithoutNodata ==
    \A rc \in Cells(req.raster.samples) :
        LET v == req.raster.samples[rc[1]][rc[2]]
        IN  /\ v \notin {NoData, NaNPix}
            /\ req.raster.kind = "file" => v # req.raster.nodata

\* C12: for a raster without nodata, the count reported for a zone is the
\* number of raster pixels inside the zone's geometry and the mean of a constant
\* raster is the constant, for file-backed and in-memory rasters alike.
C12_OnlyPixelsInsideZone ==
    (req.op = "zonal_stats" /\ Returned /\ PlainStats /\ RasterWithoutNodata
        /\ {"count", "mean"} \subseteq SeqSet(req.stats)) =>
        \A i \in 1..Len(req.polygons.rows) :
            (req.polygons.rows[i].hasGeometry /\ InsidePixels(i) # {}) =>
                /\ res.results["count"][i] = Num(Cardinality(InsidePixels(i)), 1)
                /\ \A c \in ZonVals :
                     (\A rc \in Cells(req.raster.samples) :
                          req.raster.samples[rc[1]][rc[2]] = c) =>
                        /\ res.results["mean"][i].k = "num"
                        /\ res.results["mean"][i].n = c * res.results["mean"][i].d

\* the samples inside zone i that differ from the nodata value the raster
\* declares, in row-major order
ValidSamples(i) ==
    LET a == req.raster.samples
        all == [k \in 1..(Len(a) * Len(a[1])) |-> RowMajorCell(a, k)]
        keep == SelectSeq(all, LAMBDA rc :
                    /\ GeoCell(rc, req.raster.transform) \in ZoneGeometry(i)
                    /\ a[rc[1]][rc[2]] # req.raster.nodata)
    IN  [j \in 1..Len(keep) |-> a[keep[j][1]][keep[j][2]]]

\* C13: for a raster file that declares a nodata value (and holds no NaN), the
\* values aggregated for a zone are exactly the samples inside the zone that
\* differ from that declared value, whatever the value is.
C13_DeclaredNodataExcluded ==
    (req.op = "zonal_stats" /\ Returned /\ req.raster.kind = "file"
        /\ \A rc \in Cells(req.raster.samples) :
              req.raster.samples[rc[1]][rc[2]] # NaNPix) =>
        \A i \in 1..Len(req.polygons.rows) :
            req.polygons.rows[i].hasGeometry => res.rows[i].values = ValidSamples(i)

\* C14: in categorical mode the list of histograms has one histogram per zone
\* and histogram i is the one of zone i.
C14_OneHistogramPerZone ==
    (req.op = "zonal_stats" /\ Returned /\ req.categorical) =>
        /\ Len(res.categories) = Len(req.polygons.rows)
        /\ \A i \in 1..Len(req.polygons.rows) :
             res.rows[i].hist = <<res.categories[i]>>

\* the sum of the pixel counts of a histogram
HistogramTotal(hist) ==
    LET RECURSIVE Total(_)
        Total(keys) == IF keys = {} THEN 0
                       ELSE LET key == CHOOSE k \in keys : TRUE
                            IN  hist[key] + Total(keys \ {key})
    IN  Total(DOMAIN hist)

\* C30: in categorical mode, for every zone with at least one valid pixel the
\* pixel counts of the zone's histogram sum to the number of valid pixels of
\* the zone, for integer-valued rasters and for others.
C30_HistogramCountsEveryPixel ==
    (req.op = "zonal_stats" /\ Returned /\ req.categorical /\ res.raised = "none") =>
        \A i \in 1..Len(req.polygons.rows) :
            res.rows[i].outcome = "computed" =>
                /\ Len(res.rows[i].hist) = 1
                /\ HistogramTotal(res.rows[i].hist[1]) = Len(res.rows[i].values)

(***************************************************************************)
(* Raster algebra: RasterOperations.raster_calculator.  The expression      *)
(* string is modelled by its syntax tree; eval is Python's: names are       *)
(* looked up in the loaded arrays, attributes and methods of the values     *)
(* are reachable, operands are evaluated left to right.                     *)
(***************************************************************************)
Ref(name) == [t |-> "ref", name |-> name]

Lit(value) == [t |-> "lit", value |-> value]

Bin(op, l, r) == [t |-> "bin", op |-> op, l |-> l, r |-> r]

Attr(obj, attr) == [t |-> "attr", obj |-> obj, attr |-> attr]

Call(obj, method) == [t |-> "call", obj |-> obj, method |-> method]

Comp(obj) == [t |-> "comp", obj |-> obj]

\* B4, B8: names of the rasters dictionary; B9: a name it does not hold
Atoms == {Ref("B4"), Ref("B8"), Ref("B9"), Lit(2)}

ArithOps == {"+", "-", "*"}

\* B4 + B8, B4.T, B4.sum(), B4.tofile('dump.bin'), [row for row in B4]
Depth1 ==
    {Bin(op, l, r) : op \in ArithOps, l \in Atoms, r \in Atoms}
    \cup {Attr(a, "T") : a \in Atoms}
    \cup {Call(a, m) : a \in Atoms, m \in {"sum", "tofile"}}
    \cup {Comp(a) : a \in Atoms}

\* the expressions handed to raster_calculator
Expressions ==
    Atoms \cup Depth1
    \cup {Bin(op, l, r) : op \in ArithOps, l \in {e \in Depth1 : e.t # "comp"}, r \in Atoms}

\* a value of the evaluation, with the arrays written to disk on the way
Value(k, v, wrote) == [k |-> k, v |-> v, wrote |-> wrote]

Raise(err, wrote) == [k |-> "error", v |-> err, wrote |-> wrote]

ApplyOp(op, x, y) == IF op = "+" THEN x + y ELSE IF op = "-" THEN x - y ELSE x * y

Transpose(a) == [c \in 1..Len(a[1]) |-> [r \in 1..Len(a) |-> a[r][c]]]

\* x op y for two evaluated operands
BinValue(op, x, y) ==
    LET wrote == x.wrote \o y.wrote
    IN  IF x.k = "none" \/ y.k = "none" THEN Raise("TypeError", wrote)
        ELSE IF x.k = "scalar" /\ y.k = "scalar"
        THEN Value("scalar", ApplyOp(op, x.v, y.v), wrote)
        ELSE LET a == IF x.k = "scalar" THEN <<<<x.v>>>> ELSE x.v
                 b == IF y.k = "scalar" THEN <<<<y.v>>>> ELSE y.v
             IN  IF ~Broadcastable(Shape(a), Shape(b)) THEN Raise("ValueError", wrote)
                 ELSE Value("array", Elementwise(LAMBDA u, w : ApplyOp(op, u, w), a, b), wrote)

RECURSIVE Eval(_, _)
\* eval(expression, {"__builtins__": {}}, arrays) on the tree e
Eval(e, arrays) ==
    IF e.t = "lit" THEN Value("scalar", e.value, <<>>)
    ELSE IF e.t = "ref"
    THEN IF e.name \in DOMAIN arrays THEN Value("array", arrays[e.name], <<>>)
         ELSE Raise("NameError", <<>>)
    ELSE IF e.t = "bin"
    THEN LET x == Eval(e.l, arrays)
         IN  IF x.k = "error" THEN x
             ELSE LET y == Eval(e.r, arrays)
                  IN  IF y.k = "error" THEN Raise(y.v, x.wrote \o y.wrote)
                      ELSE BinValue(e.op, x, y)
    ELSE LET o == Eval(e.obj, arrays)
         IN  IF o.k = "error" THEN o
             ELSE IF o.k # "array" THEN
                    Raise(IF e.t = "comp" THEN "TypeError" ELSE "AttributeError", o.wrote)
             ELSE IF e.t = "attr" THEN Value("array", Transpose(o.v), o.wrote)
             ELSE IF e.t = "comp" THEN Value("list", o.v, o.wrote)
             ELSE IF e.method = "sum"
             THEN Value("scalar", SeqSum([k \in 1..(Len(o.v) * Len(o.v[1])) |->
                        o.v[((k - 1) \div Len(o.v[1])) + 1][((k - 1) % Len(o.v[1])) + 1]]),
                        o.wrote)
             ELSE Value("none", 0, o.wrote \o <<o.v>>)

\* RasterOperations.raster_calculator without output_path: the rasters are
\* loaded, the expression is evaluated, an exception of eval is re-raised
raster_calculator(expression, rasters) ==
    LET result == Eval(expression, rasters)
    IN  IF result.k = "error"
        THEN [raised |-> result.v, kind |-> "none", data |-> <<>>, wrote |-> result.wrote]
        ELSE [raised |-> "none", kind |-> result.k, data |-> result.v,
              wrote |-> result.wrote]

\* the rasters dictionary: two readable rasters of one shape
CalcRasters ==
    {d \in [{"B4", "B8"} -> ArraysOf({1, 2})] : Shape(d["B4"]) = Shape(d["B8"])}

CalcRequests == [op : {"raster_calculator"}, expression : Expressions, rasters : CalcRasters]

InitCalc == req \in CalcRequests /\ res = Pending /\ files = <<>> /\ pc = <<>>

\* files: the arrays the evaluation has written to disk
RasterCalculator ==
    /\ req.op = "raster_calculator"
    /\ res.kind = "pending"
    /\ res' = raster_calculator(req.expression, req.rasters)
    /\ files' = files \o res'.wrote
    /\ UNCHANGED <<req, pc>>

NextCalc == RasterCalculator

SpecCalc == InitCalc /\ [][NextCalc]_vars

RECURSIVE Whitelisted(_)
\* the expression is built from arithmetic operators, numbers and named grid
\* references of the rasters dictionary only
Whitelisted(e) ==
    \/ e.t = "lit"
    \/ (e.t = "ref" /\ e.name \in {"B4", "B8"})
    \/ (e.t = "bin" /\ Whitelisted(e.l) /\ Whitelisted(e.r))

\* C23: raster_calculator rejects every expression that holds a term outside
\* the whitelisted grammar (attribute access, call, comprehension, unknown
\* name) with an error, and such an expression has no other effect.
C23_OnlyWhitelistedGrammar ==
    (req.op = "raster_calculator" /\ Returned /\ ~Whitelisted(req.expression)) =>
        /\ res.raised # "none"
        /\ files = <<>>

(***************************************************************************)
(* Objects: the arrays and GeoDataFrames a caller hands to an operation    *)
(* live in a heap (a sequence of objects, an object's identity is its      *)
(* index).  An operation reads its arguments from the heap, creates the    *)
(* objects its statements create and returns the identity of its result.   *)
(***************************************************************************)
\* a new object holding v
Alloc(heap, v) == [heap |-> Append(heap, v), id |-> Len(heap) + 1]

\* a GeoDataFrame with every geometry moved to the CRS
Reprojected(gdf, crs) ==
    [crs |-> crs,
     rows |-> [i \in 1..Len(gdf.rows) |->
                 [gdf.rows[i] EXCEPT !.geometry = to_crs(@, gdf.crs, crs)]]]

ToCrsInPlace(heap, id, crs) ==
    [heap |-> [heap EXCEPT ![id] = Reprojected(@, crs)], id |-> id]

\* "polygons = polygons.to_crs(raster_crs)": to_crs returns a new GeoDataFrame,
\* the local name is bound to it
ToCrs(heap, id, crs) == Alloc(heap, Reprojected(heap[id], crs))

\* the outcome of an operation on the heap: the heap it leaves, the exception
\* it raised, the identity of the object it returned
Outcome(heap, raised, id) == [heap |-> heap, raised |-> raised, id |-> id]

\* return a new object holding v, or raise
ReturnNew(heap, raised, v) ==
    IF raised # "none" THEN Outcome(heap, raised, 0)
    ELSE Outcome(Alloc(heap, v).heap, "none", Alloc(heap, v).id)

\* compute_ndvi on two arrays: red_band.astype(float) and nir_band.astype(float)
\* are copies, np.where and np.clip build new arrays
compute_ndvi_objects(heap, redId, nirId) ==
    LET red == Alloc(heap, heap[redId])
        nir == Alloc(red.heap, heap[nirId])
        ndvi == compute_ndvi(nir.heap[red.id], nir.heap[nir.id], FALSE, FALSE)
    IN  ReturnNew(nir.heap, ndvi.raised, ndvi.data)

\* ndvi_difference on two arrays: two astype copies, ndvi2 - ndvi1 is new
ndvi_difference_objects(heap, id1, id2) ==
    LET ndvi1 == Alloc(heap, heap[id1])
        ndvi2 == Alloc(ndvi1.heap, heap[id2])
        diff == ndvi_difference(ndvi2.heap[ndvi1.id], ndvi2.heap[ndvi2.id], FALSE)
    IN  ReturnNew(ndvi2.heap, diff.raised, diff.data)

\* the three vectorizing functions on an array: the array is only read (the
\* comparison builds the mask), the GeoDataFrame is new
vectorize_objects(heap, id, op, threshold, operator) ==
    LET gdf == IF op = "detect_vegetation_loss"
               THEN detect_vegetation_loss(heap[id], threshold.value)
               ELSE IF op = "detect_vegetation_gain"
               THEN detect_vegetation_gain(heap[id], threshold.value)
               ELSE vectorize_raster(heap[id], threshold, operator)
        mask == Alloc(heap, gdf.mask)
    IN  ReturnNew(IF gdf.raised = "none" THEN mask.heap ELSE heap, gdf.raised, gdf.features)

\* zonal_stats: the polygons are reprojected when the raster has another CRS;
\* the boolean indexing of the values builds new arrays; results is a new dict
zonal_stats_objects(heap, rasterId, polygonsId, stats, categorical) ==
    LET raster == heap[rasterId]
        polygons == IF raster.kind = "file" /\ heap[polygonsId].crs # raster.crs
                    THEN ToCrs(heap, polygonsId, raster.crs)
                    ELSE [heap |-> heap, id |-> polygonsId]
        results == zonal_stats(polygons.heap[rasterId], polygons.heap[polygons.id],
                               stats, categorical)
    IN  ReturnNew(polygons.heap, results.raised, results.results)

\* clip_raster_by_vector without output_path: the vector is reprojected when
\* the raster file has another CRS, mask() raises on a missing geometry, on no
\* geometry at all and on no overlap
clip_raster_by_vector_objects(heap, rasterId, vectorId) ==
    LET raster == heap[rasterId]
        vector == IF heap[vectorId].crs # raster.crs
                  THEN ToCrs(heap, vectorId, raster.crs)
                  ELSE [heap |-> heap, id |-> vectorId]
        rows == vector.heap[vector.id].rows
        geoms == UNION {rows[i].geometry : i \in 1..Len(rows)}
    IN  IF (\E i \in 1..Len(rows) : ~rows[i].hasGeometry) \/ geoms = {}
        THEN Outcome(vector.heap, "ValueError", 0)
        ELSE ReturnNew(vector.heap, MaskCrop(vector.heap[rasterId], geoms).raised,
                       MaskCrop(vector.heap[rasterId], geoms).values)

\* rasters handed to zonal_stats and clip_raster_by_vector here
ObjectRasters ==
    [kind : {"mem"}, samples : ArraysOf({NoData, 5}), transform : {<<0, 0>>}, crs : {"none"}]
    \cup
    [kind : {"file"}, samples : ArraysOf({NoData, 5}), transform : {<<0, 0>>},
     crs : {"EPSG:4326"}, nodata : {NoData}]

\* a call: the operation, its argument objects (args) and its other arguments
ObjectCalls ==
    [op : {"compute_ndvi"}, args : ArraysOf({0, 1}) \X ArraysOf({0, 1})]
    \cup
    [op : {"ndvi_difference"},
     args : {g \in MemGrids : \A rc \in Cells(g.samples) : g.samples[rc[1]][rc[2]] # 2}
            \X {g \in MemGrids : \A rc \in Cells(g.samples) : g.samples[rc[1]][rc[2]] # 2}]
    \cup
    [op : {"detect_vegetation_loss", "detect_vegetation_gain", "vectorize_raster"},
     args : {<<g>> : g \in {v \in VecGrids : v.kind = "mem"}},
     threshold : {[given |-> TRUE, value |-> -2]}, operator : {"less"}]
    \cup
    [op : {"zonal_stats"}, args : ObjectRasters \X ZoneCollections,
     stats : {<<"mean", "count">>}, categorical : {TRUE}]
    \cup
    [op : {"clip_raster_by_vector"},
     args : {r \in ObjectRasters : r.kind = "file"} \X ZoneCollections]

\* the heap holds the argument objects of the call
InitObjects == req \in ObjectCalls /\ res = Pending /\ files = req.args /\ pc = <<>>

\* the call returns: files is the heap it leaves
Return(out) ==
    /\ res.kind = "pending"
    /\ files' = out.heap
    /\ res' = [raised |-> out.raised, kind |-> "object", data |-> out.id]
    /\ UNCHANGED <<req, pc>>

CallComputeNdvi ==
    req.op = "compute_ndvi" /\ Return(compute_ndvi_objects(files, 1, 2))

CallNdviDifference ==
    req.op = "ndvi_difference" /\ Return(ndvi_difference_objects(files, 1, 2))

CallVectorize ==
    /\ req.op \in {"detect_vegetation_loss", "detect_vegetation_gain", "vectorize_raster"}
    /\ Return(vectorize_objects(files, 1, req.op, req.threshold, req.operator))

CallZonalStats ==
    /\ req.op = "zonal_stats"
    /\ Return(zonal_stats_objects(files, 1, 2, req.stats, req.categorical))

CallClipRaster ==
    req.op = "clip_raster_by_vector" /\ Return(clip_raster_by_vector_objects(files, 1, 2))

NextObjects ==
    \/ CallComputeNdvi
    \/ CallNdviDifference
    \/ CallVectorize
    \/ CallZonalStats
    \/ CallClipRaster

SpecObjects == InitObjects /\ [][NextObjects]_vars

\* C24: after an operation returns (normally or with an error) every argument
\* object (array, zone collection with its geometry and CRS) is unchanged, and
\* the result is an object that did not exist before the call.
C24_InputsUnchanged ==
    Returned =>
        /\ \A i \in 1..Len(req.args) : files[i] = req.args[i]
        /\ res.raised = "none" => res.data > Len(req.args)

\* zonal_stats and clip_raster_by_vector have returned a result for a zone
\* collection they had to reproject
C24_Witness ==
    /\ Returned /\ res.raised = "none"
    /\ req.op \in {"zonal_stats", "clip_raster_by_vector"}
    /\ req.args[1].kind = "file" /\ req.args[2].crs # req.args[1].crs
    /\ Len(req.args[2].rows) > 0
    /\ Len(files) > Len(req.args) + 1

(***************************************************************************)
(* Dispatcher: SpatialEngine.execute_raster_operation and the operations   *)
(* behind it, called by several callers on one engine and one data         *)
(* directory                                                               *)
(***************************************************************************)
\* the number of concurrent callers of the engine
NumCallers == 2

\* the number of operations each caller issues, one after another
MaxOps == 2

Callers == 1..NumCallers

\* data_dir / "temp" / "ndvi_diff_temp.tif"
DiffTempPath == "temp/ndvi_diff_temp.tif"

\* the rasters under the data directory: two NDVI layers of one grid whose
\* upper-left corner is not the origin of the geographic coordinates
RasterLibrary ==
    [path \in {"ndvi_2018.tif", "ndvi_2024.tif"} |->
        [kind |-> "file",
         samples |-> IF path = "ndvi_2018.tif" THEN <<<<5, 5>>>> ELSE <<<<2, 5>>>>,
         transform |-> <<1, 0>>, crs |-> "EPSG:4326"]]

\* the vector layers under the data directory, both in another CRS than the
\* rasters: one mask zone; two districts, the first a feature without geometry
VectorLibrary ==
    [path \in {"residential.geojson", "districts.geojson"} |->
        [crs |-> "EPSG:25833",
         rows |-> IF path = "residential.geojson"
                  THEN <<[hasGeometry |-> TRUE,
                          geometry |-> to_crs({<<2, 1>>}, "EPSG:4326", "EPSG:25833")]>>
                  ELSE <<[hasGeometry |-> FALSE, geometry |-> {}],
                         [hasGeometry |-> TRUE,
                          geometry |-> to_crs({<<2, 1>>}, "EPSG:4326", "EPSG:25833")]>>]]

NoFile == [exists |-> FALSE,
           grid |-> [kind |-> "file", samples |-> <<>>, transform |-> <<0, 0>>, crs |-> "none"]]

EnginePending ==
    [success |-> FALSE, result_type |-> "pending", features |-> <<>>, count |-> 0,
     crs |-> "none", error |-> "none"]

\* the "except Exception" of execute_raster_operation, and its unknown-type branch
FailureResult(err) ==
    [success |-> FALSE, result_type |-> "none", features |-> <<>>, count |-> 0,
     crs |-> "none", error |-> err]

\* gdf.geometry.is_valid of one row: False for a row without geometry
IsValidGeometry(f) == IF "hasGeometry" \in DOMAIN f THEN f.hasGeometry ELSE TRUE

\* a NaN of a numeric column becomes null in the GeoJSON
JsonNull == [k |-> "null", n |-> 0, d |-> 1]

JsonProperties(f) ==
    IF "properties" \in DOMAIN f
    THEN [f EXCEPT !.properties =
            [key \in DOMAIN f.properties |->
                IF f.properties[key] = NaNStat THEN JsonNull ELSE f.properties[key]]]
    ELSE f

format_result_empty_fails(gdf) ==
    LET valid == SelectSeq(gdf.features, IsValidGeometry)
    IN  IF valid = <<>> THEN FailureResult("No valid geometries found")
        ELSE [success |-> TRUE, result_type |-> "geojson",
              features |-> [i \in 1..Len(valid) |->
                              [JsonProperties(valid[i]) EXCEPT
                                 !.geometry = to_crs(@, gdf.crs, "EPSG:4326")]],
              count |-> Len(valid), crs |-> "EPSG:4326", error |-> "none"]

\* SpatialEngine._format_result of a GeoDataFrame: converted to EPSG:4326, rows
\* of invalid geometry dropped, counted, NaN properties nulled
format_result(gdf) ==
    LET valid == SelectSeq(gdf.features, IsValidGeometry)
    IN  [success |-> TRUE, result_type |-> "geojson",
         features |-> [i \in 1..Len(valid) |->
                         [JsonProperties(valid[i]) EXCEPT
                            !.geometry = to_crs(@, gdf.crs, "EPSG:4326")]],
         count |-> Len(valid), crs |-> "EPSG:4326", error |-> "none"]

\* params[key] raises KeyError for one of the keys
MissingParam(r, keys) == \E key \in keys : key \notin DOMAIN r

\* ndvi_difference on two paths under the data directory
DifferenceOfPaths(p1, p2, outputPath) ==
    IF p1 \notin DOMAIN RasterLibrary \/ p2 \notin DOMAIN RasterLibrary
    THEN DiffFailed("RasterioIOError")
    ELSE ndvi_difference(RasterLibrary[p1], RasterLibrary[p2], outputPath)

WrittenFileUnlessPresent(d) ==
    IF files[DiffTempPath].exists THEN files[DiffTempPath]
    ELSE [exists |-> TRUE,
          grid |-> [kind |-> "file", samples |-> d.data, transform |-> d.transform,
                    crs |-> d.crs]]

\* the raster file ndvi_difference writes to its output path
WrittenFile(d) ==
    [exists |-> TRUE,
     grid |-> [kind |-> "file", samples |-> d.data, transform |-> d.transform,
               crs |-> d.crs]]

RECURSIVE OverlayFrom(_, _, _)
OverlayFrom(fs, mask, i) ==
    IF i > Len(fs) THEN <<>>
    ELSE (IF fs[i].geometry \cap mask # {}
          THEN <<[fs[i] EXCEPT !.geometry = @ \cap mask]>> ELSE <<>>)
         \o OverlayFrom(fs, mask, i + 1)

\* "Optional: filter by mask vector": gpd.overlay(loss_areas, mask_gdf,
\* how='intersection') with the single zone of the mask layer, reprojected to
\* the CRS of the loss polygons
MaskLossAreas(loss, maskPath) ==
    IF maskPath = "none" \/ Len(loss.features) = 0 THEN loss
    ELSE IF maskPath \notin DOMAIN VectorLibrary THEN VecFailed("DriverError")
    ELSE LET layer == VectorLibrary[maskPath]
             zone == to_crs(layer.rows[1].geometry, layer.crs, loss.crs)
         IN  [loss EXCEPT !.features = OverlayFrom(loss.features, zone, 1)]

\* the second half of _execute_vegetation_loss: detection on the raster found
\* at the temp path, the optional mask, the formatting
DetectOnFile(file, r) ==
    LET loss == MaskLossAreas(detect_vegetation_loss(file.grid, r.threshold), r.mask_vector)
    IN  IF loss.raised # "none" THEN FailureResult(loss.raised) ELSE format_result(loss)

\* the first lines of _execute_ndvi_change and _execute_vegetation_loss: the
\* two paths taken from params, then ndvi_difference
DifferenceOfParams(r, outputPath) ==
    IF MissingParam(r, {"ndvi_t1", "ndvi_t2"}) THEN DiffFailed("KeyError")
    ELSE DifferenceOfPaths(r.ndvi_t1, r.ndvi_t2, outputPath)

\* SpatialEngine._execute_ndvi_change: the difference stays in memory
execute_ndvi_change(r) ==
    LET d == DifferenceOfParams(r, FALSE)
    IN  IF d.raised # "none" THEN FailureResult(d.raised)
        ELSE LET loss == detect_vegetation_loss(
                            [kind |-> "mem", samples |-> d.data,
                             transform |-> <<0, 0>>, crs |-> "none"], r.threshold)
             IN  IF Len(loss.features) > 0 THEN format_result(loss)
                 ELSE [success |-> TRUE, result_type |-> "geojson", features |-> <<>>,
                       count |-> 0, crs |-> "none", error |-> "none"]

\* the property (column) f'zonal_{stat}' of a statistic name
ZonalColumn(stat) == "zonal_" \o stat

\* SpatialEngine._execute_zonal_stats: the layer is read, zonal_stats is called
\* without categorical, each array becomes a column of the layer (pandas
\* raises ValueError when the lengths differ), the layer is formatted
execute_zonal_stats(r) ==
    IF MissingParam(r, {"raster", "vector"}) THEN FailureResult("KeyError")
    ELSE IF r.vector \notin DOMAIN VectorLibrary THEN FailureResult("DriverError")
    ELSE IF r.raster \notin DOMAIN RasterLibrary THEN FailureResult("RasterioIOError")
    ELSE LET stats == IF "stats" \in DOMAIN r THEN r.stats ELSE <<"mean", "min", "max">>
             polygons == VectorLibrary[r.vector]
             results == zonal_stats(RasterLibrary[r.raster], polygons, stats, FALSE).results
             column(key) == results[CHOOSE name \in DOMAIN results : ZonalColumn(name) = key]
         IN  IF \E name \in DOMAIN results : Len(results[name]) # Len(polygons.rows)
             THEN FailureResult("ValueError")
             ELSE format_result(
                    [crs |-> polygons.crs,
                     features |-> [i \in 1..Len(polygons.rows) |->
                        [hasGeometry |-> polygons.rows[i].hasGeometry,
                         geometry |-> polygons.rows[i].geometry,
                         properties |->
                            [key \in {ZonalColumn(name) : name \in DOMAIN results} |->
                                column(key)[i]]]]])

execute_vectorize_raster_stale(r) ==
    IF MissingParam(r, {"raster"}) THEN FailureResult("KeyError")
    ELSE IF r.raster \notin DOMAIN RasterLibrary THEN FailureResult("RasterioIOError")
    ELSE LET polygons == vectorize_raster(
                            IF files[DiffTempPath].exists THEN files[DiffTempPath].grid
                            ELSE RasterLibrary[r.raster],
                            IF "threshold" \in DOMAIN r
                            THEN [given |-> TRUE, value |-> r.threshold] ELSE NoThreshold,
                            IF "operator" \in DOMAIN r THEN r.operator ELSE "greater")
         IN  IF polygons.raised # "none" THEN FailureResult(polygons.raised)
             ELSE format_result(polygons)

\* SpatialEngine._execute_vectorize_raster: threshold and operator are optional
execute_vectorize_raster(r) ==
    IF MissingParam(r, {"raster"}) THEN FailureResult("KeyError")
    ELSE IF r.raster \notin DOMAIN RasterLibrary THEN FailureResult("RasterioIOError")
    ELSE LET polygons == vectorize_raster(
                            RasterLibrary[r.raster],
                            IF "threshold" \in DOMAIN r
                            THEN [given |-> TRUE, value |-> r.threshold] ELSE NoThreshold,
                            IF "operator" \in DOMAIN r THEN r.operator ELSE "greater")
         IN  IF polygons.raised # "none" THEN FailureResult(polygons.raised)
             ELSE format_result(polygons)

\* the operation types execute_raster_operation dispatches on
OperationTypes ==
    {"ndvi_change", "zonal_stats", "clip_raster", "vectorize_raster", "vegetation_loss"}

\* zonal_stats operations: every statistic list with and without categorical,
\* the default statistics, an unreadable raster, an unreadable layer
ZonalOperations ==
    [type : {"zonal_stats"}, raster : {"ndvi_2024.tif"}, vector : {"districts.geojson"},
     stats : StatLists, categorical : BOOLEAN]
    \cup
    {[type |-> "zonal_stats", raster |-> "ndvi_2024.tif", vector |-> "districts.geojson"],
     [type |-> "zonal_stats", raster |-> "missing.tif", vector |-> "districts.geojson"],
     [type |-> "zonal_stats", raster |-> "ndvi_2024.tif", vector |-> "missing.geojson"]}

\* vectorize_raster operations: with and without threshold, a known and an
\* unknown operator, an unreadable raster
VectorizeOperations ==
    [type : {"vectorize_raster"}, raster : {"ndvi_2024.tif"}, threshold : {3},
     operator : {"greater", "between"}]
    \cup
    [type : {"vectorize_raster"}, raster : {"ndvi_2024.tif"},
     operator : {"greater", "between"}]
    \cup
    {[type |-> "vectorize_raster", raster |-> "missing.tif"]}

\* an operation dictionary: its type and its params
EngineRequests ==
    ZonalOperations \cup VectorizeOperations
    \cup
    {[type |-> "vegetation_loss", ndvi_t2 |-> "ndvi_2024.tif", threshold |-> -2,
      mask_vector |-> "none"]}
    \cup
    [type : {"vegetation_loss"}, ndvi_t1 : {"ndvi_2018.tif", "ndvi_2024.tif"},
     ndvi_t2 : {"ndvi_2018.tif", "ndvi_2024.tif", "missing.tif"},
     threshold : {-2}, mask_vector : {"none", "residential.geojson"}]
    \cup
    [type : {"ndvi_change", "slope"}, ndvi_t1 : {"ndvi_2018.tif"},
     ndvi_t2 : {"ndvi_2018.tif", "ndvi_2024.tif"}, threshold : {-2},
     mask_vector : {"none"}]

Idle(done) == [at |-> "idle", done |-> done]

InitEngine ==
    /\ req = [p \in Callers |-> CHOOSE r \in EngineRequests : TRUE]
    /\ res = [p \in Callers |-> EnginePending]
    /\ files = [path \in {DiffTempPath} |-> NoFile]
    /\ pc = [p \in Callers |-> Idle(0)]

\* a caller hands an operation dictionary to execute_raster_operation
Dispatch(p) ==
    /\ pc[p].at = "idle" /\ pc[p].done < MaxOps
    /\ \E r \in EngineRequests : req' = [req EXCEPT ![p] = r]
    /\ res' = [res EXCEPT ![p] = EnginePending]
    /\ pc' = [pc EXCEPT ![p].at = "dispatched"]
    /\ UNCHANGED files

Finish(p, result) ==
    /\ res' = [res EXCEPT ![p] = result]
    /\ pc' = [pc EXCEPT ![p] = Idle(@.done + 1)]

\* first half of _execute_vegetation_loss: ndvi_difference writes the temp file
VegetationLossDifference(p) ==
    /\ pc[p].at = "dispatched" /\ req[p].type = "vegetation_loss"
    /\ LET d == DifferenceOfParams(req[p], TRUE)
       IN  IF d.raised # "none"
           THEN Finish(p, FailureResult(d.raised)) /\ UNCHANGED files
           ELSE /\ files' = [files EXCEPT ![DiffTempPath] = WrittenFile(d)]
                /\ pc' = [pc EXCEPT ![p].at = "detect"]
                /\ UNCHANGED res
    /\ UNCHANGED req

\* second half: detect_vegetation_loss reads the temp file back
VegetationLossDetect(p) ==
    /\ pc[p].at = "detect"
    /\ Finish(p, DetectOnFile(files[DiffTempPath], req[p]))
    /\ UNCHANGED <<req, files>>

NdviChange(p) ==
    /\ pc[p].at = "dispatched" /\ req[p].type = "ndvi_change"
    /\ Finish(p, execute_ndvi_change(req[p]))
    /\ UNCHANGED <<req, files>>

ExecuteZonalStats(p) ==
    /\ pc[p].at = "dispatched" /\ req[p].type = "zonal_stats"
    /\ Finish(p, execute_zonal_stats(req[p]))
    /\ UNCHANGED <<req, files>>

ExecuteVectorizeRaster(p) ==
    /\ pc[p].at = "dispatched" /\ req[p].type = "vectorize_raster"
    /\ Finish(p, execute_vectorize_raster(req[p]))
    /\ UNCHANGED <<req, files>>

UnknownOperation(p) ==
    /\ pc[p].at = "dispatched"
    /\ req[p].type \notin OperationTypes
    /\ Finish(p, FailureResult("Unknown raster operation type"))
    /\ UNCHANGED <<req, files>>

NextEngine ==
    \E p \in Callers :
        \/ Dispatch(p)
        \/ VegetationLossDifference(p)
        \/ VegetationLossDetect(p)
        \/ NdviChange(p)
        \/ ExecuteZonalStats(p)
        \/ ExecuteVectorizeRaster(p)
        \/ UnknownOperation(p)

SpecEngine == InitEngine /\ [][NextEngine]_vars

\* the result of operation r when it runs alone on the data directory
AloneResult(r) ==
    IF r.type = "vegetation_loss"
    THEN LET d == DifferenceOfParams(r, TRUE)
         IN  IF d.raised # "none" THEN FailureResult(d.raised)
             ELSE DetectOnFile(WrittenFile(d), r)
    ELSE IF r.type = "ndvi_change" THEN execute_ndvi_change(r)
    ELSE IF r.type = "zonal_stats" THEN execute_zonal_stats(r)
    ELSE IF r.type = "vectorize_raster" THEN execute_vectorize_raster(r)
    ELSE FailureResult("Unknown raster operation type")

\* C1: under every interleaving of the operations of different callers, each
\* invocation returns the result it would return if it ran alone.
C1_ConcurrentAsAlone ==
    \A p \in Callers :
        (pc[p].at = "idle" /\ pc[p].done > 0) => res[p] = AloneResult(req[p])

\* caller p has an operation returned and has issued no other since
Finished(p) == pc[p].at = "idle" /\ pc[p].done > 0

\* the statistic names a zonal_stats operation asks for
RequestedStats(r) == IF "stats" \in DOMAIN r THEN r.stats ELSE <<"mean", "min", "max">>

\* C15: a zonal_stats operation on a readable raster and layer returns every
\* zone of the layer, in order, each with one property per requested statistic
\* and, when the operation sets categorical, one more property (the class to
\* count map).
C15_ZonesEnriched ==
    \A p \in Callers :
        (Finished(p) /\ req[p].type = "zonal_stats"
            /\ ~MissingParam(req[p], {"raster", "vector"})
            /\ req[p].raster \in DOMAIN RasterLibrary
            /\ req[p].vector \in DOMAIN VectorLibrary) =>
            LET zones == VectorLibrary[req[p].vector]
                columns == {ZonalColumn(name) : name \in SeqSet(RequestedStats(req[p]))}
            IN  /\ res[p].success
                /\ Len(res[p].features) = Len(zones.rows)
                /\ \A i \in 1..Len(zones.rows) :
                     /\ res[p].features[i].hasGeometry = zones.rows[i].hasGeometry
                     /\ res[p].features[i].geometry =
                            to_crs(zones.rows[i].geometry, zones.crs, "EPSG:4326")
                     /\ columns \subseteq DOMAIN res[p].features[i].properties
                     /\ ("categorical" \in DOMAIN req[p] /\ req[p].categorical) =>
                            \E key \in DOMAIN res[p].features[i].properties :
                                key \notin columns

FatalRequest(r) ==
    \/ r.type \notin OperationTypes
    \/ (r.type \in {"ndvi_change", "vegetation_loss"}
            /\ MissingParam(r, {"ndvi_t1", "ndvi_t2"}))
    \/ (r.type = "zonal_stats" /\ MissingParam(r, {"raster", "vector"}))
    \/ (r.type = "vectorize_raster" /\ MissingParam(r, {"raster"}))
    \/ \E key \in {"ndvi_t1", "ndvi_t2", "raster"} \cap DOMAIN r :
            r[key] \notin DOMAIN RasterLibrary
    \/ ("vector" \in DOMAIN r /\ r.vector \notin DOMAIN VectorLibrary)
    \/ ("mask_vector" \in DOMAIN r
            /\ r.mask_vector \notin (DOMAIN VectorLibrary \cup {"none"}))
    \/ ("operator" \in DOMAIN r /\ r.operator \notin {"greater", "less", "equal"})

\* C20: an operation dictionary with a fatal error is answered by
\* execute_raster_operation with a failure result: success = false and an
\* error message.
C20_FatalErrorIsFailure ==
    \A p \in Callers :
        (Finished(p) /\ FatalRequest(req[p])) =>
            /\ ~res[p].success
            /\ res[p].error # "none"

\* no pixel of a difference raster is below the loss threshold
ZeroMatching(samples, threshold) ==
    \A rc \in Cells(samples) : samples[rc[1]][rc[2]] >= threshold

\* the step in which caller p's change detection classifies its difference
\* raster (the file at the temp path for vegetation_loss, the array in memory
\* for ndvi_change) finds no pixel below the threshold
DetectsNothing(p) ==
    \/ /\ pc[p].at = "detect" /\ pc'[p].at = "idle"
       /\ ZeroMatching(files[DiffTempPath].grid.samples, req[p].threshold)
    \/ /\ pc[p].at = "dispatched" /\ pc'[p].at = "idle"
       /\ req[p].type = "ndvi_change"
       /\ DifferenceOfParams(req[p], FALSE).raised = "none"
       /\ ZeroMatching(DifferenceOfParams(req[p], FALSE).data, req[p].threshold)

\* C21: a change-detection operation (ndvi_change, or vegetation_loss with or
\* without a mask zone) whose classification finds zero pixels below the
\* threshold returns a success result with no feature and count 0, never a
\* failure result.
C21_EmptyResultIsSuccess ==
    [][\A p \in Callers :
          DetectsNothing(p) =>
              /\ res'[p].success
              /\ res'[p].result_type = "geojson"
              /\ res'[p].features = <<>>
              /\ res'[p].count = 0
              /\ res'[p].error = "none"]_vars

\* a vegetation_loss operation with a mask zone on two equal rasters and an
\* ndvi_change operation on two equal rasters have both returned an empty
\* success result; no other caller has started
C21_Witness ==
    \E p, q \in Callers :
        /\ p # q /\ Finished(p) /\ Finished(q) /\ pc[p].done = 1 /\ pc[q].done = 1
        /\ req[p].type = "vegetation_loss"
        /\ req[p].mask_vector = "residential.geojson"
        /\ req[p].ndvi_t1 = req[p].ndvi_t2
        /\ res[p].success /\ res[p].count = 0
        /\ req[q].type = "ndvi_change" /\ req[q].ndvi_t1 = req[q].ndvi_t2
        /\ res[q].success /\ res[q].count = 0
        /\ \A o \in Callers \ {p, q} : pc[o] = Idle(0)

\* the places, in EPSG:4326, of the pixels of a difference raster below the
\* threshold, through the affine transform and the CRS of the raster t1
LossPlaces(t1, samples, threshold) ==
    to_crs({GeoCell(rc, t1.transform) :
               rc \in {q \in Cells(samples) : samples[q[1]][q[2]] < threshold}},
           t1.crs, "EPSG:4326")

\* the step in which caller p's change detection returns polygons: the raster
\* it classified (as in DetectsNothing)
Classified(p) ==
    IF pc[p].at = "detect" THEN files[DiffTempPath].grid.samples
    ELSE DifferenceOfParams(req[p], FALSE).data

DetectsSomething(p) ==
    /\ pc'[p].at = "idle" /\ res'[p].success /\ res'[p].count > 0
    /\ \/ pc[p].at = "detect"
       \/ pc[p].at = "dispatched" /\ req[p].type = "ndvi_change"

\* C25: the polygons a change-detection operation (ndvi_change, vegetation_loss)
\* returns lie on the places of the loss pixels in geographic coordinates,
\* through the affine transform and the CRS of the t1 raster.
C25_PolygonsAtGeographicPlaces ==
    [][\A p \in Callers :
          DetectsSomething(p) =>
              \A i \in 1..Len(res'[p].features) :
                  res'[p].features[i].geometry \subseteq
                      LossPlaces(RasterLibrary[req[p].ndvi_t1], Classified(p),
                                 req[p].threshold)]_vars

(***************************************************************************)
(* Formatter: SpatialEngine._format_result with its two serializations.    *)
(* Whether gdf_copy.__geo_interface__ and gdf_copy.to_json() raise is the  *)
(* library's answer for the frame, an input here.                          *)
(***************************************************************************)
MaxRows == 2

FrameRows ==
    [hasGeometry : {TRUE}, geometry : {{<<1, 1>>}, {<<2, 1>>}},
     properties : [zonal_mean : {NaNStat, Num(5, 1)}]]
    \cup
    [hasGeometry : {FALSE}, geometry : {{}},
     properties : [zonal_mean : {NaNStat, Num(5, 1)}]]

RECURSIVE RowSeqs(_)
RowSeqs(n) ==
    IF n = 0 THEN {<<>>}
    ELSE RowSeqs(n - 1) \cup {Append(q, f) : q \in {s \in RowSeqs(n - 1) : Len(s) = n - 1},
                                             f \in FrameRows}

Frames == [crs : CRSs \cup {"none"}, features : RowSeqs(MaxRows)]

\* _format_result: the formatted frame; when __geo_interface__ raises the
\* fallback to_json() serializes the same rows; when that raises too the
\* FeatureCollection is empty and the metadata (count = len(gdf)) is kept
format_result_serialized(gdf, geoInterfaceRaises, toJsonRaises) ==
    IF format_result(gdf).count > 0 /\ geoInterfaceRaises /\ toJsonRaises
    THEN [format_result(gdf) EXCEPT !.features = <<>>,
                                    !.error = "Error serializing geometries"]
    ELSE format_result(gdf)

FormatRequests == [gdf : Frames, geoInterfaceRaises : BOOLEAN, toJsonRaises : BOOLEAN]

\* SpatialEngine.__init__: the attributes of a newly constructed engine
SpatialEngine(data_dir) ==
    [data_dir |-> data_dir, current_result |-> "None", _raster_ops |-> "None"]

DataDirs == {"./data", "/srv/geodata"}

\* an engine is constructed (pc holds the object), then asked to format a frame
InitFormat ==
    /\ req \in FormatRequests /\ res = Pending /\ files = <<>>
    /\ \E data_dir \in DataDirs : pc = SpatialEngine(data_dir)

FormatResult ==
    /\ res.kind = "pending"
    /\ res' = [raised |-> "none", kind |-> "result",
               data |-> format_result_serialized(req.gdf, req.geoInterfaceRaises,
                                                 req.toJsonRaises)]
    /\ UNCHANGED <<req, files, pc>>

NextFormat == FormatResult

SpecFormat == InitFormat /\ [][NextFormat]_vars

\* C27: every result of _format_result has success = true, result_type =
\* 'geojson' and a metadata count equal to the number of features of its
\* FeatureCollection, on the normal path, when every geometry is invalid and
\* when the serialization falls back.
C27_CountIsNumberOfFeatures ==
    Returned =>
        /\ res.data.success
        /\ res.data.result_type = "geojson"
        /\ res.data.count = Len(res.data.features)

\* C28: a newly constructed SpatialEngine has an empty loaded_data mapping and
\* a current_result equal to None.
C28_NewEngineIsEmpty ==
    ~Returned =>
        /\ "loaded_data" \in DOMAIN pc
        /\ pc.loaded_data = <<>>
        /\ pc.current_result = "None"

\* caller p issues its operations one after another on an engine no other
\* caller has used
Sequential(p) == \A q \in Callers \ {p} : pc[q] = Idle(0)

\* the difference raster of caller p's own operation, as a file
OwnDifference(p) ==
    LET d == DifferenceOfParams(req[p], TRUE)
    IN  [exists |-> TRUE,
         grid |-> [kind |-> "file", samples |-> d.data, transform |-> d.transform,
                   crs |-> d.crs]]

\* C29: in a sequence of vegetation_loss operations executed one after another
\* on one engine, the detection of an operation reads the difference raster
\* that operation wrote and its result is the one computed from it, whatever
\* temp file an earlier operation left; an operation whose differencing fails
\* returns a failure without detection and leaves the temp file alone.
C29_DetectionReadsOwnDifference ==
    [][\A p \in Callers :
          Sequential(p) =>
              /\ (pc[p].at = "detect" /\ pc'[p].at = "idle") =>
                    /\ files[DiffTempPath] = OwnDifference(p)
                    /\ res'[p] = DetectOnFile(OwnDifference(p), req[p])
              /\ (pc[p].at = "dispatched" /\ pc'[p].at = "idle"
                    /\ req[p].type = "vegetation_loss") =>
                    /\ ~res'[p].success
                    /\ res'[p].features = <<>>
                    /\ files' = files]_vars

\* one caller's second vegetation_loss operation has failed in differencing
\* (t2 is missing) while the temp file of its first operation is still there,
\* and no polygon of that file was returned
C29_Witness ==
    \E p \in Callers :
        /\ Sequential(p) /\ Finished(p) /\ pc[p].done = 2
        /\ req[p].type = "vegetation_loss"
        /\ "ndvi_t1" \in DOMAIN req[p] /\ req[p].ndvi_t2 = "missing.tif"
        /\ files[DiffTempPath].exists
        /\ \E rc \in Cells(files[DiffTempPath].grid.samples) :
              files[DiffTempPath].grid.samples[rc[1]][rc[2]] < req[p].threshold
        /\ ~res[p].success /\ res[p].features = <<>>

====
